---- MODULE Spec2Model ----
(***************************************************************************)
(* Model of hpsklearn/components/ensemble/_forest.py: the construction of  *)
(* the hyperopt search space of the four forest estimators.                *)
(*                                                                         *)
(* One behaviour is one call from the outside: either one of the four      *)
(* family entry points with a set of keyword overrides, or one of the two  *)
(* aggregate functions (which call two entry points in turn).  The module  *)
(* keeps no state between calls, so a behaviour ends when the call has     *)
(* returned or raised.                                                     *)
(***************************************************************************)
EXTENDS Integers, Sequences, FiniteSets, TLC

VARIABLES
    pc,         \* position of the running call
    family,     \* entry point that is running: "rfc", "rfr", "etc", "etr"
    name,       \* its `name` argument
    args,       \* its keyword arguments (criterion and **kwargs), as passed
    leaves,     \* the hp.* nodes created so far by the running entry point
    hp_space,   \* the dict under construction
    result,     \* the returned scope.sklearn_* node, NoNode before
    error,      \* the ValueError raised, NoError before
    agg,        \* the aggregate function that is running, "" when none
    agg_name,   \* its `name` argument
    agg_nodes   \* the list it has built so far

vars == <<pc, family, name, args, leaves, hp_space, result, error,
          agg, agg_name, agg_nodes>>

(***************************************************************************)
(* Bounds                                                                  *)
(***************************************************************************)
\* a call passes at most this many keyword arguments
MaxOverrides == 2

(***************************************************************************)
(* Python values.  A literal is a record of its type and its content; a    *)
(* float carries its value in tenths (FloatV(-10) is -1.0, FloatV(5) is 0.5).*)
(***************************************************************************)
None == [t |-> "none", n |-> 0, s |-> ""]
IntV(i) == [t |-> "int", n |-> i, s |-> ""]
FloatV(tenths) == [t |-> "float", n |-> tenths, s |-> ""]
StrV(x) == [t |-> "str", n |-> 0, s |-> x]
BoolV(b) == [t |-> "bool", n |-> IF b THEN 1 ELSE 0, s |-> ""]
True == BoolV(TRUE)
False == BoolV(FALSE)

\* a pyll node made by hp.<kind>(label, ...); sub is the label of the hp node
\* nested in its options, "" when there is none
Apply(kind, label, sub) ==
    [t |-> "apply", n |-> 0, s |-> label, kind |-> kind, sub |-> sub]

\* bool(v) as `or` and any() take it
Truthy(v) ==
    CASE v.t = "none" -> FALSE
      [] v.t = "int" -> v.n # 0
      [] v.t = "float" -> v.n # 0
      [] v.t = "bool" -> v.n = 1
      [] v.t = "str" -> v.s # ""
      [] OTHER -> TRUE

\* x or y
Or(x, y) == IF Truthy(x) THEN x ELSE y

\* any(seq), a bool
any(seq) == BoolV(\E i \in 1..Len(seq) : Truthy(seq[i]))

\* what generator returns: its value and the hp nodes it created, in order
Gen(value, made) == [value |-> value, made |-> made]

(***************************************************************************)
(* Parameter distribution library: one generator per hyperparameter.  Each *)
(* returns the pyll node it builds and the hp nodes it created, inner      *)
(* nodes first (Python evaluates the options before the enclosing call).   *)
(***************************************************************************)
_forest_classifier_criterion(label) ==
    Gen(Apply("choice", label, ""), <<Apply("choice", label, "")>>)

_random_forest_regressor_criterion(label) ==
    Gen(Apply("choice", label, ""), <<Apply("choice", label, "")>>)

_extra_trees_regressor_criterion(label) ==
    Gen(Apply("choice", label, ""), <<Apply("choice", label, "")>>)

_forest_n_estimators(label) ==
    Gen(Apply("qloguniform", label, ""), <<Apply("qloguniform", label, "")>>)

_forest_max_depth(label) ==
    Gen(Apply("pchoice", label, ""), <<Apply("pchoice", label, "")>>)

_forest_min_samples_split(label) ==
    Gen(Apply("pchoice", label, ""), <<Apply("pchoice", label, "")>>)

_forest_min_samples_leaf(label) ==
    Gen(Apply("choice", label, label \o ".gt1"),
        <<Apply("qloguniform", label \o ".gt1", ""),
          Apply("choice", label, label \o ".gt1")>>)

\* a constant: no hp node is made and the label is not used
_forest_min_weight_fraction_leaf(label) ==
    Gen(FloatV(0), <<>>)

_forest_max_features(label) ==
    Gen(Apply("pchoice", label, label \o ".frac"),
        <<Apply("uniform", label \o ".frac", ""),
          Apply("pchoice", label, label \o ".frac")>>)

_forest_max_leaf_nodes(label) ==
    Gen(Apply("pchoice", label, ""), <<Apply("pchoice", label, "")>>)

_forest_min_impurity_decrease(label) ==
    Gen(Apply("pchoice", label, ""), <<Apply("pchoice", label, "")>>)

_forest_bootstrap(label) ==
    Gen(Apply("choice", label, ""), <<Apply("choice", label, "")>>)

_forest_random_state(label) ==
    Gen(Apply("randint", label, ""), <<Apply("randint", label, "")>>)

(***************************************************************************)
(* Validation layer                                                        *)
(***************************************************************************)
NoError == [msg |-> "", param |-> "", value |-> None]

\* the three decorators of _forest_hp_space: the parameters each looks at, in
\* the order of its list, and the message each raises
MaxFeaturesParams == <<"max_features">>
PositiveParams == <<"n_estimators", "max_depth", "min_samples_split",
                    "min_samples_leaf", "max_features", "max_leaf_nodes",
                    "min_impurity_decrease">>
CcpAlphaParams == <<"ccp_alpha">>

MaxFeaturesMsg == "Value must be in ['auto', 'sqrt', 'log2']."
PositiveMsg == "Parameter value must be non-negative and greater than 0."
CcpAlphaMsg == "Parameter value must be non-negative."
BootstrapMsg == "parameter 'bootstrap' can not be False."

\* the max_features test with "log2" left out of the list
MaxFeaturesTest_no_log2(param) ==
    param.t = "str" /\ param.s \notin {"auto", "sqrt"}

\* lambda param: isinstance(param, str) and param not in ["auto", "sqrt", "log2"]
MaxFeaturesTest(param) ==
    param.t = "str" /\ param.s \notin {"auto", "sqrt", "log2"}

\* the positive-float test with >= in place of >
PositiveTest_ge(param) ==
    param.t = "float" /\ ~(param.n >= 0)

\* lambda param: isinstance(param, float) and not param > 0
PositiveTest(param) ==
    param.t = "float" /\ ~(param.n > 0)

\* lambda param: isinstance(param, float) and not param < 0
CcpAlphaTest(param) ==
    param.t = "float" /\ ~(param.n < 0)

\* validate(params, validation_test, msg) applied to the keyword arguments kw:
\* the error of the first listed parameter that is passed and for which the
\* test is true (failing is the set of passed parameters whose value the
\* test is true of), NoError when there is none.
validate(params, failing, msg, kw) ==
    LET bad == {i \in 1..Len(params) :
                    params[i] \in DOMAIN kw /\ params[i] \in failing}
    IN  IF bad = {} THEN NoError
        ELSE LET i == CHOOSE j \in bad : \A k \in bad : j <= k
             IN  [msg |-> msg, param |-> params[i], value |-> kw[params[i]]]

validate_max_features(kw) ==
    validate(MaxFeaturesParams, {p \in DOMAIN kw : MaxFeaturesTest(kw[p])},
             MaxFeaturesMsg, kw)

validate_positive(kw) ==
    validate(PositiveParams, {p \in DOMAIN kw : PositiveTest(kw[p])},
             PositiveMsg, kw)

validate_ccp_alpha(kw) ==
    validate(CcpAlphaParams, {p \in DOMAIN kw : CcpAlphaTest(kw[p])},
             CcpAlphaMsg, kw)

(***************************************************************************)
(* Naming scope: the _name closure of each entry point                     *)
(***************************************************************************)
Families == {"rfc", "rfr", "etc", "etr"}

\* the extra-trees classifier closure with the random-forest tag
extra_trees_classifier_name_rfc(nm, msg) == nm \o ".rfc_" \o msg

random_forest_classifier_name(nm, msg) == nm \o ".rfc_" \o msg
random_forest_regressor_name(nm, msg) == nm \o ".rfr_" \o msg
extra_trees_classifier_name(nm, msg) == nm \o ".etc_" \o msg
extra_trees_regressor_name(nm, msg) == nm \o ".etr_" \o msg

\* the closure the entry point of family fam passes as name_func
name_func(fam, nm, msg) ==
    CASE fam = "rfc" -> random_forest_classifier_name(nm, msg)
      [] fam = "rfr" -> random_forest_regressor_name(nm, msg)
      [] fam = "etc" -> extra_trees_classifier_name(nm, msg)
      [] OTHER -> extra_trees_regressor_name(nm, msg)

(***************************************************************************)
(* Space composer: _forest_hp_space                                        *)
(***************************************************************************)
\* dict(...) with its last keyword left out
HpKeys_short ==
    <<"n_estimators", "max_depth", "min_samples_split", "min_samples_leaf",
      "min_weight_fraction_leaf", "max_features", "max_leaf_nodes",
      "min_impurity_decrease", "bootstrap", "oob_score", "n_jobs",
      "random_state", "verbose", "warm_start", "ccp_alpha">>

\* the keys of dict(...), in the order they are evaluated
HpKeys == <<"n_estimators", "max_depth", "min_samples_split",
            "min_samples_leaf", "min_weight_fraction_leaf", "max_features",
            "max_leaf_nodes", "min_impurity_decrease", "bootstrap",
            "oob_score", "n_jobs", "random_state", "verbose", "warm_start",
            "ccp_alpha", "max_samples">>

\* the defaults of the signature
Default(p) ==
    CASE p = "oob_score" -> False
      [] p = "n_jobs" -> IntV(1)
      [] p = "verbose" -> False
      [] p = "warm_start" -> False
      [] p = "ccp_alpha" -> FloatV(0)
      [] OTHER -> None

\* the value parameter p is bound to in a call with keyword arguments kw
Param(kw, p) == IF p \in DOMAIN kw THEN kw[p] ELSE Default(p)

\* if bootstrap is False and any([oob_score, max_samples]) is not None
bootstrap_check(kw) ==
    /\ Param(kw, "bootstrap") = False
    /\ any(<<Param(kw, "oob_score"), Param(kw, "max_samples")>>) # None

\* `generator(...) if value is None else value` where the code has `or`
OrGen_is_none(v, gen) == IF v = None THEN gen ELSE Gen(v, <<>>)

\* value or generator(...)
OrGen(v, gen) == IF Truthy(v) THEN Gen(v, <<>>) ELSE gen

\* generator(...) if value is None else value
NoneGen(v, gen) == IF v = None THEN gen ELSE Gen(v, <<>>)

\* the expression dict(...) binds to key
hp_entry(key, kw, fam, nm) ==
    LET v == Param(kw, key)
        label == name_func(fam, nm, key)
    IN  CASE key = "n_estimators" -> OrGen(v, _forest_n_estimators(label))
          [] key = "max_depth" -> NoneGen(v, _forest_max_depth(label))
          [] key = "min_samples_split" ->
                OrGen(v, _forest_min_samples_split(label))
          [] key = "min_samples_leaf" ->
                OrGen(v, _forest_min_samples_leaf(label))
          [] key = "min_weight_fraction_leaf" ->
                OrGen(v, _forest_min_weight_fraction_leaf(label))
          [] key = "max_features" -> OrGen(v, _forest_max_features(label))
          [] key = "max_leaf_nodes" ->
                NoneGen(v, _forest_max_leaf_nodes(label))
          [] key = "min_impurity_decrease" ->
                OrGen(v, _forest_min_impurity_decrease(label))
          [] key = "bootstrap" -> NoneGen(v, _forest_bootstrap(label))
          [] key = "random_state" -> NoneGen(v, _forest_random_state(label))
          [] OTHER -> Gen(v, <<>>)

(***************************************************************************)
(* Family entry points                                                     *)
(***************************************************************************)
\* the generator of the family's criterion
criterion_gen(fam, label) ==
    CASE fam = "rfc" -> _forest_classifier_criterion(label)
      [] fam = "rfr" -> _random_forest_regressor_criterion(label)
      [] fam = "etc" -> _forest_classifier_criterion(label)
      [] OTHER -> _extra_trees_regressor_criterion(label)

\* criterion or <generator>(_name("criterion"))
criterion_entry(fam, nm, a) ==
    OrGen(IF "criterion" \in DOMAIN a THEN a["criterion"] ELSE None,
          criterion_gen(fam, name_func(fam, nm, "criterion")))

\* the scope function the family binds its mapping to
scope_fn(fam) ==
    CASE fam = "rfc" -> "sklearn_RandomForestClassifier"
      [] fam = "rfr" -> "sklearn_RandomForestRegressor"
      [] fam = "etc" -> "sklearn_ExtraTreesClassifier"
      [] OTHER -> "sklearn_ExtraTreesRegressor"

\* scope.sklearn_<Estimator>(**hp_space)
scope_node(fam, space) == [fn |-> scope_fn(fam), kwargs |-> space]
NoNode == [fn |-> "", kwargs |-> <<>>]

\* **kwargs of an entry point: what it was passed, less its own criterion
kwargs_of(a) == [p \in DOMAIN a \ {"criterion"} |-> a[p]]

(***************************************************************************)
(* Inputs: the calls the model makes                                       *)
(***************************************************************************)
EntryNames == {"rf"}
AggNames == {"ens"}

ArgNames == {HpKeys[i] : i \in 1..Len(HpKeys)} \cup {"criterion"}

\* the values a call may pass for argument p
ArgValues(p) ==
    CASE p = "n_estimators" ->
            {IntV(100), IntV(0), IntV(-1), FloatV(-10), FloatV(25)}
      [] p = "max_depth" -> {None, IntV(0), IntV(3), FloatV(0)}
      [] p = "min_samples_split" ->
            {IntV(0), FloatV(0), StrV(""), False, FloatV(5)}
      [] p = "min_samples_leaf" ->
            {IntV(0), FloatV(0), StrV(""), False, IntV(2)}
      [] p = "min_weight_fraction_leaf" -> {None, FloatV(1)}
      [] p = "max_features" ->
            {IntV(0), FloatV(0), StrV(""), False, FloatV(5), StrV("auto"),
             StrV("sqrt"), StrV("log2"), StrV("invalid")}
      [] p = "max_leaf_nodes" -> {None, IntV(0), IntV(10), FloatV(-10)}
      [] p = "min_impurity_decrease" ->
            {IntV(0), FloatV(0), StrV(""), False, FloatV(1)}
      [] p = "bootstrap" -> {None, True, False}
      [] p = "oob_score" -> {False, True}
      [] p = "max_samples" -> {None, FloatV(5)}
      [] p = "ccp_alpha" -> {FloatV(-1), FloatV(0), FloatV(1)}
      [] p = "n_jobs" -> {IntV(2)}
      [] p = "random_state" -> {None, IntV(0)}
      [] p = "verbose" -> {True}
      [] p = "warm_start" -> {True}
      [] OTHER -> {None, StrV("gini")}

\* the keyword-argument mappings over the argument names S
RECURSIVE ArgsOver(_)
ArgsOver(S) ==
    IF S = {} THEN {<<>>}
    ELSE LET p == CHOOSE x \in S : TRUE
         IN  {(p :> v) @@ f : v \in ArgValues(p), f \in ArgsOver(S \ {p})}

CallArgs ==
    UNION {ArgsOver(S) :
            S \in {T \in SUBSET ArgNames : Cardinality(T) <= MaxOverrides}}

(***************************************************************************)
(* State machine                                                           *)
(***************************************************************************)
Init ==
    /\ pc = "idle"
    /\ family = ""
    /\ name = ""
    /\ args = <<>>
    /\ leaves = <<>>
    /\ hp_space = <<>>
    /\ result = NoNode
    /\ error = NoError
    /\ agg = ""
    /\ agg_name = ""
    /\ agg_nodes = <<>>

\* the frame of a fresh entry-point call
Enter(fam, nm, a) ==
    /\ pc' = "validate_max_features"
    /\ family' = fam
    /\ name' = nm
    /\ args' = a
    /\ leaves' = <<>>
    /\ hp_space' = <<>>
    /\ result' = NoNode
    /\ error' = NoError

\* a caller invokes one of the four entry points
EntryPoint(fam, nm, a) ==
    /\ pc = "idle"
    /\ Enter(fam, nm, a)
    /\ UNCHANGED <<agg, agg_name, agg_nodes>>

CallEntryPoint ==
    /\ pc = "idle"
    /\ \E fam \in Families, nm \in EntryNames, a \in CallArgs :
            EntryPoint(fam, nm, a)

\* one decorator: raise its error, or go on to what it wraps
Validator(here, err, next) ==
    /\ pc = here
    /\ IF err # NoError
       THEN pc' = "raised" /\ error' = err
       ELSE pc' = next /\ error' = error
    /\ UNCHANGED <<family, name, args, leaves, hp_space, result,
                   agg, agg_name, agg_nodes>>

ValidateMaxFeatures ==
    Validator("validate_max_features", validate_max_features(kwargs_of(args)),
              "validate_positive")

ValidatePositive ==
    Validator("validate_positive", validate_positive(kwargs_of(args)),
              "validate_ccp_alpha")

ValidateCcpAlpha ==
    Validator("validate_ccp_alpha", validate_ccp_alpha(kwargs_of(args)),
              "bootstrap_check")

\* the cross-parameter check placed after the first keyword of dict(...)
BootstrapCheck_late ==
    /\ pc = "bootstrap_check"
    /\ leaves' = hp_entry("n_estimators", kwargs_of(args), family, name).made
    /\ IF bootstrap_check(kwargs_of(args))
       THEN /\ pc' = "raised"
            /\ error' = [msg |-> BootstrapMsg, param |-> "bootstrap",
                         value |-> Param(kwargs_of(args), "bootstrap")]
       ELSE /\ pc' = "build"
            /\ error' = error
    /\ UNCHANGED <<family, name, args, hp_space, result,
                   agg, agg_name, agg_nodes>>

\* the first statement of _forest_hp_space
BootstrapCheck ==
    /\ pc = "bootstrap_check"
    /\ IF bootstrap_check(kwargs_of(args))
       THEN /\ pc' = "raised"
            /\ error' = [msg |-> BootstrapMsg, param |-> "bootstrap",
                         value |-> Param(kwargs_of(args), "bootstrap")]
       ELSE /\ pc' = "build"
            /\ error' = error
    /\ UNCHANGED <<family, name, args, leaves, hp_space, result,
                   agg, agg_name, agg_nodes>>

\* dict(...) evaluates its next keyword
BuildEntry ==
    /\ pc = "build"
    /\ LET i == Cardinality(DOMAIN hp_space) + 1
           g == hp_entry(HpKeys[i], kwargs_of(args), family, name)
       IN  /\ hp_space' = (HpKeys[i] :> g.value) @@ hp_space
           /\ leaves' = leaves \o g.made
           /\ pc' = IF i = Len(HpKeys) THEN "criterion" ELSE "build"
    /\ UNCHANGED <<family, name, args, result, error,
                   agg, agg_name, agg_nodes>>

\* hp_space["criterion"] = ...
SetCriterion ==
    /\ pc = "criterion"
    /\ LET g == criterion_entry(family, name, args)
       IN  /\ hp_space' = ("criterion" :> g.value) @@ hp_space
           /\ leaves' = leaves \o g.made
    /\ pc' = "wrap"
    /\ UNCHANGED <<family, name, args, result, error,
                   agg, agg_name, agg_nodes>>

\* return scope.sklearn_<Estimator>(**hp_space)
Return ==
    /\ pc = "wrap"
    /\ result' = scope_node(family, hp_space)
    /\ pc' = "returned"
    /\ UNCHANGED <<family, name, args, leaves, hp_space, error,
                   agg, agg_name, agg_nodes>>

\* the families an aggregate calls, in the order of its list
agg_families(kind) ==
    IF kind = "classifiers" THEN <<"rfc", "etc">> ELSE <<"rfr", "etr">>

\* the aggregate passing its own name on, without a suffix
agg_entry_name_bare(nm, i) == nm

\* the name the aggregate gives its i-th entry point
agg_entry_name(nm, i) ==
    IF i = 1 THEN nm \o ".random_forest" ELSE nm \o ".extra_trees"

\* a caller invokes _forest_classifiers or _forest_regressors, which calls
\* its first entry point
Aggregate(kind, nm) ==
    /\ pc = "idle"
    /\ agg' = kind
    /\ agg_name' = nm
    /\ agg_nodes' = <<>>
    /\ Enter(agg_families(kind)[1], agg_entry_name(nm, 1), <<>>)

CallAggregate ==
    /\ pc = "idle"
    /\ \E kind \in {"classifiers", "regressors"}, nm \in AggNames :
            Aggregate(kind, nm)

\* an entry point returned to the aggregate: the node joins the list and the
\* aggregate calls the next entry point, or returns the list
AggregateNext ==
    /\ pc = "returned"
    /\ agg # ""
    /\ agg_nodes' = Append(agg_nodes, result)
    /\ LET i == Len(agg_nodes) + 2
       IN  IF i <= Len(agg_families(agg))
           THEN Enter(agg_families(agg)[i], agg_entry_name(agg_name, i), <<>>)
           ELSE /\ pc' = "agg_returned"
                /\ UNCHANGED <<family, name, args, leaves, hp_space, result,
                               error>>
    /\ UNCHANGED <<agg, agg_name>>

Next ==
    \/ CallEntryPoint
    \/ ValidateMaxFeatures
    \/ ValidatePositive
    \/ ValidateCcpAlpha
    \/ BootstrapCheck
    \/ BuildEntry
    \/ SetCriterion
    \/ Return
    \/ CallAggregate
    \/ AggregateNext

Spec == Init /\ [][Next]_vars

(***************************************************************************)
(* Properties                                                              *)
(***************************************************************************)
\* the keyword arguments _forest_hp_space received in the running call
kw == kwargs_of(args)

\* positions of a call that lie after the named step
AfterMaxFeatures ==
    {"validate_positive", "validate_ccp_alpha", "bootstrap_check", "build",
     "criterion", "wrap", "returned", "agg_returned"}
AfterPositive == AfterMaxFeatures \ {"validate_positive"}
AfterCcpAlpha == AfterPositive \ {"validate_ccp_alpha"}
AfterBootstrapCheck == AfterCcpAlpha \ {"bootstrap_check"}

RaisedWith(msg) == pc = "raised" /\ error.msg = msg

\* C1: once the validators have passed, the call raises the cross-parameter
\* configuration error exactly when bootstrap is explicitly False and at least
\* one of oob_score / max_samples is set (truthy); the original claim.
C1_CrossParameterExactly ==
    LET set == \/ Truthy(Param(kw, "oob_score"))
               \/ Truthy(Param(kw, "max_samples"))
        refused == Param(kw, "bootstrap") = False /\ set
    IN  /\ RaisedWith(BootstrapMsg) => refused
        /\ pc \in AfterBootstrapCheck => ~refused

\* C2: an explicit float ccp_alpha fails validation if it is negative and
\* passes if it is non-negative; the original claim.
C2_CcpAlphaNonNegative ==
    LET given == "ccp_alpha" \in DOMAIN kw /\ kw["ccp_alpha"].t = "float"
    IN  /\ RaisedWith(CcpAlphaMsg) => given /\ kw["ccp_alpha"].n < 0
        /\ pc \in AfterCcpAlpha /\ given => kw["ccp_alpha"].n >= 0

\* C3: the positive-float rule rejects a call exactly when one of its seven
\* parameters is overridden with a float that is not greater than 0; ints,
\* positive floats and None never trigger it, and the error names the first
\* such parameter and its value.
C3_PositiveFloatRule ==
    LET seven == {"n_estimators", "max_depth", "min_samples_split",
                  "min_samples_leaf", "max_features", "max_leaf_nodes",
                  "min_impurity_decrease"}
        bad == {p \in seven \cap DOMAIN kw :
                    kw[p].t = "float" /\ kw[p].n <= 0}
    IN  /\ RaisedWith(PositiveMsg) =>
                error.param \in bad /\ error.value = kw[error.param]
        /\ pc \in AfterPositive => bad = {}
        /\ (RaisedWith(CcpAlphaMsg) \/ RaisedWith(BootstrapMsg)) => bad = {}

C3_Witness ==
    /\ RaisedWith(PositiveMsg)
    /\ error.param = "n_estimators"
    /\ error.value = FloatV(-10)

\* C4: a max_features override fails validation exactly when it is a string
\* outside {"auto", "sqrt", "log2"} or a float not greater than 0; the string
\* error names max_features and the offending value; and max_features="sqrt"
\* passes and is the literal "sqrt" in the mapping.
C4_MaxFeaturesRule ==
    LET given == "max_features" \in DOMAIN kw
        badStr == /\ given
                  /\ kw["max_features"].t = "str"
                  /\ kw["max_features"].s \notin {"auto", "sqrt", "log2"}
        badFloat == /\ given
                    /\ kw["max_features"].t = "float"
                    /\ kw["max_features"].n <= 0
    IN  /\ RaisedWith(MaxFeaturesMsg) =>
                /\ badStr
                /\ error.param = "max_features"
                /\ error.value = kw["max_features"]
        /\ pc \in AfterMaxFeatures => ~badStr
        /\ pc = "raised" /\ error.param = "max_features" =>
                badStr \/ badFloat
        /\ pc \in AfterPositive => ~badFloat
        /\ given /\ kw["max_features"] = StrV("sqrt")
             /\ "max_features" \in DOMAIN hp_space =>
                hp_space["max_features"] = StrV("sqrt")

C4_Witness ==
    /\ RaisedWith(MaxFeaturesMsg)
    /\ error.param = "max_features"
    /\ error.value = StrV("invalid")

\* C5: the mapping bound to every returned construction node has exactly the
\* 16 keys of _forest_hp_space plus criterion, whichever overrides are given.
C5_ExactKeySet ==
    LET keys == {"n_estimators", "max_depth", "min_samples_split",
                 "min_samples_leaf", "min_weight_fraction_leaf",
                 "max_features", "max_leaf_nodes", "min_impurity_decrease",
                 "bootstrap", "oob_score", "n_jobs", "random_state",
                 "verbose", "warm_start", "ccp_alpha", "max_samples",
                 "criterion"}
    IN  /\ pc = "returned" => DOMAIN result.kwargs = keys
        /\ \A i \in 1..Len(agg_nodes) : DOMAIN agg_nodes[i].kwargs = keys

C5_Witness ==
    /\ pc = "returned"
    /\ family = "etr"
    /\ DOMAIN args = {"criterion", "max_depth"}

\* C6: for max_depth, max_leaf_nodes and bootstrap the mapping holds a
\* generated distribution iff the override is None, every other override is
\* in the mapping unmodified, and this includes bootstrap=False: a call that
\* passes bootstrap=False and leaves oob_score and max_samples unset is not
\* refused; the original claim.
C6_NoneOnlyDefaults ==
    /\ \A p \in {"max_depth", "max_leaf_nodes", "bootstrap"} \cap
                    DOMAIN hp_space :
            IF Param(kw, p) = None
            THEN hp_space[p].t = "apply"
            ELSE hp_space[p] = Param(kw, p)
    /\ ~(/\ RaisedWith(BootstrapMsg)
         /\ Param(kw, "bootstrap") = False
         /\ ~Truthy(Param(kw, "oob_score"))
         /\ ~Truthy(Param(kw, "max_samples")))

\* the labels of the hp nodes inside a construction node
NodeLabels(node) ==
    UNION {{node.kwargs[k].s} \cup ({node.kwargs[k].sub} \ {""}) :
            k \in {x \in DOMAIN node.kwargs : node.kwargs[x].t = "apply"}}

\* every label family fam can create under the name nm
FamilyLabels(fam, nm) ==
    LET made == UNION {{hp_entry(HpKeys[i], <<>>, fam, nm).made :
                            i \in 1..Len(HpKeys)},
                       {criterion_entry(fam, nm, <<>>).made}}
    IN  UNION {{m[i].s : i \in 1..Len(m)} : m \in made}

HasPrefix(str, prefix) ==
    Len(str) >= Len(prefix) /\ SubSeq(str, 1, Len(prefix)) = prefix

\* C7: the hp nodes one entry-point call creates have pairwise distinct
\* labels at every point of the call; when it returns, each label is
\* name + "." + family tag + parameter name (plus ".gt1" or ".frac" for the
\* two nested nodes), and no label can be created by another family under
\* the same name.
C7_LeafNames ==
    LET tag == CASE family = "rfc" -> "rfc_" [] family = "rfr" -> "rfr_"
                 [] family = "etc" -> "etc_" [] OTHER -> "etr_"
        leafParams == {"n_estimators", "max_depth", "min_samples_split",
                       "min_samples_leaf", "max_features", "max_leaf_nodes",
                       "min_impurity_decrease", "bootstrap", "random_state",
                       "criterion"}
        expected == {name \o "." \o tag \o p : p \in leafParams} \cup
                    {name \o "." \o tag \o "min_samples_leaf.gt1",
                     name \o "." \o tag \o "max_features.frac"}
        labels == {leaves[i].s : i \in 1..Len(leaves)}
        others == UNION {FamilyLabels(fam, name) : fam \in Families \ {family}}
    IN  /\ Cardinality(labels) = Len(leaves)
        /\ pc = "returned" =>
                /\ labels \subseteq expected
                /\ labels \cap others = {}
                /\ NodeLabels(result) = labels

C7_Witness ==
    /\ pc = "returned"
    /\ family = "etc"
    /\ args = <<>>
    /\ Len(leaves) = 12

\* C8: while the validators and the bootstrap check are still to run, and
\* whenever the call has raised, no hp node has been created, no mapping
\* exists and nothing is returned; generators run and a node is returned only
\* in calls whose three validators and bootstrap check all passed.
C8_AllOrNothing ==
    LET checked == /\ validate_max_features(kw) = NoError
                   /\ validate_positive(kw) = NoError
                   /\ validate_ccp_alpha(kw) = NoError
                   /\ ~bootstrap_check(kw)
    IN  /\ pc \in {"validate_max_features", "validate_positive",
                   "validate_ccp_alpha", "bootstrap_check", "raised"} =>
                leaves = <<>> /\ hp_space = <<>> /\ result = NoNode
        /\ pc = "raised" => error # NoError
        /\ (leaves # <<>> \/ hp_space # <<>> \/ result # NoNode) =>
                checked /\ error = NoError
        /\ result # NoNode => pc \in {"returned", "agg_returned"}

C8_Witness ==
    /\ RaisedWith(BootstrapMsg)
    /\ "n_estimators" \notin DOMAIN args
    /\ Param(kw, "oob_score") = True

\* C9: an aggregate returns exactly two construction nodes, the random forest
\* first and the extra trees second; every label of the first starts with
\* name + ".random_forest.", every label of the second with
\* name + ".extra_trees.", and the two share no label.
C9_Aggregates ==
    pc = "agg_returned" =>
        /\ Len(agg_nodes) = 2
        /\ agg_nodes[1].fn = IF agg = "classifiers"
                             THEN "sklearn_RandomForestClassifier"
                             ELSE "sklearn_RandomForestRegressor"
        /\ agg_nodes[2].fn = IF agg = "classifiers"
                             THEN "sklearn_ExtraTreesClassifier"
                             ELSE "sklearn_ExtraTreesRegressor"
        /\ \A l \in NodeLabels(agg_nodes[1]) :
                HasPrefix(l, agg_name \o ".random_forest.")
        /\ \A l \in NodeLabels(agg_nodes[2]) :
                HasPrefix(l, agg_name \o ".extra_trees.")
        /\ NodeLabels(agg_nodes[1]) \cap NodeLabels(agg_nodes[2]) = {}

C9_Witness ==
    /\ pc = "agg_returned"
    /\ agg = "classifiers"
    /\ Cardinality(NodeLabels(agg_nodes[1])) = 12
    /\ Cardinality(NodeLabels(agg_nodes[2])) = 12

OrParams ==
    {"min_samples_split", "min_samples_leaf", "max_features",
     "min_impurity_decrease"}

\* C10 as claimed: an override of 0, 0.0, "" or False for one of the four
\* `or` parameters never makes the call raise for that parameter, and the
\* mapping holds the generated distribution for it.
C10_FalsyIgnored ==
    \A p \in OrParams \cap DOMAIN kw :
        kw[p] \in {IntV(0), FloatV(0), StrV(""), False} =>
            /\ ~(pc = "raised" /\ error.param = p)
            /\ p \in DOMAIN hp_space => hp_space[p].t = "apply"

\* C10 as amended: an override of integer 0 or False, and of "" for the three
\* parameters other than max_features, is never refused and is replaced in
\* the mapping by the generated distribution; an override of 0.0 is refused
\* by the positive-float validator and max_features="" by the max_features
\* validator, so neither reaches the mapping.
C10_FalsyIgnoredUnlessValidated ==
    \A p \in OrParams \cap DOMAIN kw :
        /\ kw[p] \in {IntV(0), False} \cup
                     (IF p = "max_features" THEN {} ELSE {StrV("")}) =>
                /\ ~(pc = "raised" /\ error.param = p)
                /\ p \in DOMAIN hp_space => hp_space[p].t = "apply"
        /\ kw[p] = FloatV(0) => pc \notin AfterPositive
        /\ p = "max_features" /\ kw[p] = StrV("") =>
                pc \notin AfterMaxFeatures

C10_Witness ==
    /\ pc = "returned"
    /\ "min_samples_split" \in DOMAIN kw
    /\ kw["min_samples_split"] = IntV(0)
    /\ "max_features" \in DOMAIN kw
    /\ kw["max_features"] = False
    /\ hp_space["min_samples_split"].t = "apply"
    /\ hp_space["max_features"].t = "apply"

====
